---- MODULE Spec2Model ----
(***************************************************************************)
(* The sheet-to-tidy-data parser of the LG International dashboard:        *)
(* data_loader.py (the dashboard loader and the query helpers),            *)
(* send_report.py (the report loader) and the cached access and refresh    *)
(* button of app.py.                                                       *)
(*                                                                         *)
(* A cell text is a string; its i-th character is SubSeq(s, i, i).  A      *)
(* float is a record [k, m, e]: k = "num" is the decimal m / 10^e in       *)
(* lowest form, k = "nan", "inf", "ninf" are the IEEE specials and         *)
(* k = "none" is Python's None.  A date is its proleptic Gregorian         *)
(* ordinal (date.toordinal()).                                             *)
(***************************************************************************)
EXTENDS Integers, Sequences, FiniteSets, TLC

VARIABLES
    arg,         \* the argument of the helper under test (a text or a header row)
    ret,         \* what the helper returned
    pc,          \* "start", "loaded" (a store was returned), "raised", "answered",
                 \* "modified"; "idle", "served", "raised" for the cached loader
    loader,      \* which loader ran: "dashboard" or "report"
    all_values,  \* the fetched grid: a sequence of rows of cell texts
    today,       \* date.today() at the time of the load
    df,          \* the DataFrame the load returned: a sequence of records
    exc,         \* the exception the load raised, "" when it returned
    query,       \* the arguments of the last query
    answer,      \* the result of the last query
    sort_tie,    \* which of the records with equal keys the build's unstable sort puts last
    sheet,       \* the grid the worksheet holds now
    now,         \* the clock of the cache, in seconds
    cache,       \* the entry st.cache_data holds for the sheet URL, NoEntry when none
    fetched,     \* whether the last access ran the body of load_raw_data
    entry_age    \* the age of the entry the last access found, -1 when it found none

vars == <<arg, ret, pc, loader, all_values, today, df, exc, query, answer,
          sort_tie, sheet, now, cache, fetched, entry_age>>

cacheVars == <<sheet, now, cache, fetched, entry_age>>

----------------------------------------------------------------------------
(* Characters and strings                                                  *)

Ch(s, i) == SubSeq(s, i, i)

\* The characters of the texts of the model, in code point order.
Ascii == " #$%()+,-./0123456789ABCDEFGHIJKLMNOPQRSTUVWXYZabcdefghijklmnopqrstuvwxyz~"

Digits == "0123456789"

\* The position of character c in s, 0 when it is not there.
IndexOf(c, s) ==
    LET hits == {i \in 1..Len(s) : Ch(s, i) = c}
    IN  IF hits = {} THEN 0 ELSE CHOOSE i \in hits : \A j \in hits : i <= j

DigitChars == {Ch(Digits, i) : i \in 1..Len(Digits)}

DigitValues == [c \in DigitChars |-> IndexOf(c, Digits) - 1]

IsDigit(c) == c \in DigitChars

DigitVal(c) == DigitValues[c]

AllDigits(s) == \A i \in 1..Len(s) : IsDigit(Ch(s, i))

\* int(s) of a string of digits.
RECURSIVE IntOf(_)
IntOf(s) ==
    IF Len(s) = 0 THEN 0
    ELSE 10 * IntOf(SubSeq(s, 1, Len(s) - 1)) + DigitVal(Ch(s, Len(s)))

\* str.lower() of one character.
UpperChars == {Ch("ABCDEFGHIJKLMNOPQRSTUVWXYZ", i) : i \in 1..26}

LowerOf ==
    [c \in UpperChars |->
        Ch("abcdefghijklmnopqrstuvwxyz", IndexOf(c, "ABCDEFGHIJKLMNOPQRSTUVWXYZ"))]

LowerCh(c) == IF c \in UpperChars THEN LowerOf[c] ELSE c

RECURSIVE Lower(_)
Lower(s) == IF Len(s) = 0 THEN "" ELSE LowerCh(Ch(s, 1)) \o Lower(SubSeq(s, 2, Len(s)))

\* str.replace(c, ""): every occurrence of the character c removed.
RECURSIVE Remove(_, _)
Remove(s, c) ==
    IF Len(s) = 0 THEN ""
    ELSE (IF Ch(s, 1) = c THEN "" ELSE Ch(s, 1)) \o Remove(SubSeq(s, 2, Len(s)), c)

RECURSIVE LStrip(_)
LStrip(s) == IF Len(s) > 0 /\ Ch(s, 1) = " " THEN LStrip(SubSeq(s, 2, Len(s))) ELSE s

RECURSIVE RStrip(_)
RStrip(s) ==
    IF Len(s) > 0 /\ Ch(s, Len(s)) = " " THEN RStrip(SubSeq(s, 1, Len(s) - 1)) ELSE s

\* str.strip() (the character set of the model holds no other whitespace).
Strip(s) == LStrip(RStrip(s))

\* s < t in Python's string order (code points, a proper prefix first).
RECURSIVE StrLess(_, _)
StrLess(s, t) ==
    IF Len(t) = 0 THEN FALSE
    ELSE IF Len(s) = 0 THEN TRUE
    ELSE IF Ch(s, 1) = Ch(t, 1) THEN StrLess(SubSeq(s, 2, Len(s)), SubSeq(t, 2, Len(t)))
    ELSE IndexOf(Ch(s, 1), Ascii) < IndexOf(Ch(t, 1), Ascii)

----------------------------------------------------------------------------
(* Floats                                                                  *)

None == [k |-> "none", m |-> 0, e |-> 0]
NaN == [k |-> "nan", m |-> 0, e |-> 0]
PosInf == [k |-> "inf", m |-> 0, e |-> 0]
NegInf == [k |-> "ninf", m |-> 0, e |-> 0]

RECURSIVE Pow10(_)
Pow10(n) == IF n = 0 THEN 1 ELSE 10 * Pow10(n - 1)

\* The decimal m / 10^e in lowest form (0.50 and 0.5 are one float).
RECURSIVE Num(_, _)
Num(m, e) ==
    IF e > 0 /\ m % 10 = 0 THEN Num(m \div 10, e - 1)
    ELSE [k |-> "num", m |-> m, e |-> e]

Zero == Num(0, 0)

IsFinite(v) == v.k = "num"

Neg(v) ==
    CASE v.k = "num" -> Num(0 - v.m, v.e)
      [] v.k = "inf" -> NegInf
      [] v.k = "ninf" -> PosInf
      [] OTHER -> v

\* IEEE addition: NaN absorbs, inf + -inf is NaN.
Add(a, b) ==
    CASE a.k = "nan" \/ b.k = "nan" -> NaN
      [] a.k = "num" /\ b.k = "num" ->
            LET e == IF a.e > b.e THEN a.e ELSE b.e
            IN  Num(a.m * Pow10(e - a.e) + b.m * Pow10(e - b.e), e)
      [] a.k = "num" -> b
      [] b.k = "num" -> a
      [] a.k = b.k -> a
      [] OTHER -> NaN

\* float(s) of Python for a text without exponent and underscore: an optional
\* sign, then "inf", "infinity" or "nan" in any case, or digits with at most
\* one point and at least one digit.  ValueError is None here (every caller
\* catches it and returns None).
FloatUnsigned(s) ==
    LET low == Lower(s)
        dot == IndexOf(".", s)
        ip  == IF dot = 0 THEN s ELSE SubSeq(s, 1, dot - 1)
        fp  == IF dot = 0 THEN "" ELSE SubSeq(s, dot + 1, Len(s))
    IN  IF low = "inf" \/ low = "infinity" THEN PosInf
        ELSE IF low = "nan" THEN NaN
        ELSE IF AllDigits(ip) /\ AllDigits(fp) /\ Len(ip) + Len(fp) > 0
             THEN Num(IntOf(ip \o fp), Len(fp))
        ELSE None

Float(s0) ==
    LET s == Strip(s0)
    IN  IF Len(s) > 0 /\ Ch(s, 1) = "-" THEN Neg(FloatUnsigned(SubSeq(s, 2, Len(s))))
        ELSE IF Len(s) > 0 /\ Ch(s, 1) = "+" THEN FloatUnsigned(SubSeq(s, 2, Len(s)))
        ELSE FloatUnsigned(s)

----------------------------------------------------------------------------
(* Cell parser: numbers                                                    *)

\* U+2014, which a string of this module cannot hold, is written "~".
EmDash == "~"

Sentinels == {"-", EmDash, "N/A", "n/a", "#DIV/0!", "#VALUE!", "#REF!"}

\* str.startswith("(") and str.endswith(")").
Wrapped(s) == Len(s) > 0 /\ Ch(s, 1) = "(" /\ Ch(s, Len(s)) = ")"

\* s[1:-1]
Inner(s) == SubSeq(s, 2, Len(s) - 1)

Unwrap(s) == IF Wrapped(s) THEN "-" \o Inner(s) ELSE s

\* The decorations removed, but for the percent sign.
UndecorateKeepPercent(s) == Remove(Remove(Remove(s, "$"), ","), " ")

Undecorate(s) == Remove(Remove(Remove(Remove(s, "$"), ","), " "), "%")

_parse_number(raw) ==
    IF raw = "" THEN None
    ELSE LET s == Strip(raw)
         IN  IF s = "" \/ s \in Sentinels THEN None
             ELSE Float(Unwrap(Undecorate(s)))

----------------------------------------------------------------------------
(* Calendar dates                                                          *)

\* "return None" of _try_parse_date: no ordinal is 0.
NoDate == 0

IsLeap(y) == y % 4 = 0 /\ (y % 100 # 0 \/ y % 400 = 0)

DaysInMonth(y, m) ==
    IF m = 2 THEN (IF IsLeap(y) THEN 29 ELSE 28)
    ELSE IF m \in {4, 6, 9, 11} THEN 30 ELSE 31

RECURSIVE DaysBeforeMonth(_, _)
DaysBeforeMonth(y, m) ==
    IF m = 1 THEN 0 ELSE DaysBeforeMonth(y, m - 1) + DaysInMonth(y, m - 1)

DaysBeforeYear(y) ==
    LET p == y - 1 IN 365 * p + (p \div 4) - (p \div 100) + (p \div 400)

\* date(y, m, d) raises ValueError outside these ranges.
ValidDate(y, m, d) ==
    /\ y \in 1..9999
    /\ m \in 1..12
    /\ d \in 1..DaysInMonth(y, m)

\* date(y, m, d).toordinal()
Ordinal(y, m, d) == DaysBeforeYear(y) + DaysBeforeMonth(y, m) + d

\* The date strptime builds from the fields it matched; its ValueError for a
\* day the month does not have is NoDate (the caller tries the next layout).
MakeDate(y, m, d) == IF ValidDate(y, m, d) THEN Ordinal(y, m, d) ELSE NoDate

----------------------------------------------------------------------------
(* Cell parser: dates                                                      *)

\* s.split(sep) for a one-character separator.
RECURSIVE Split(_, _)
Split(s, sep) ==
    LET i == IndexOf(sep, s)
    IN  IF i = 0 THEN <<s>>
        ELSE <<SubSeq(s, 1, i - 1)>> \o Split(SubSeq(s, i + 1, Len(s)), sep)

\* strptime's %m: 1[0-2]|0[1-9]|[1-9]
MonthField(f) == Len(f) \in 1..2 /\ AllDigits(f) /\ IntOf(f) \in 1..12

\* strptime's %d: 3[0-1]|[1-2]\d|0[1-9]|[1-9]| [1-9]
DayField(f) ==
    \/ Len(f) \in 1..2 /\ AllDigits(f) /\ IntOf(f) \in 1..31
    \/ Len(f) = 2 /\ Ch(f, 1) = " " /\ IsDigit(Ch(f, 2)) /\ Ch(f, 2) # "0"

DayOf(f) == IntOf(LStrip(f))

\* strptime's %Y: \d\d\d\d
Year4Field(f) == Len(f) = 4 /\ AllDigits(f)

\* strptime's %y: \d\d, 00-68 in 2000-2068 and 69-99 in 1969-1999
Year2Field(f) == Len(f) = 2 /\ AllDigits(f)

Year2Of(f) == IF IntOf(f) <= 68 THEN 2000 + IntOf(f) ELSE 1900 + IntOf(f)

\* The month names of %B and %b, which strptime matches in any case.
MonthNames ==
    <<"january", "february", "march", "april", "may", "june", "july", "august",
      "september", "october", "november", "december">>

MonthAbbrs ==
    <<"jan", "feb", "mar", "apr", "may", "jun", "jul", "aug", "sep", "oct", "nov", "dec">>

\* "%B %d, %Y" and "%b %d, %Y": a month name in any case, whitespace, the
\* day, a comma, whitespace, four digits, and nothing after them.
StrptimeNamed(value, names) ==
    LET low == Lower(value)
        Rest(m) == SubSeq(value, Len(names[m]) + 1, Len(value))
        Parts(m) == Split(LStrip(Rest(m)), ",")
        Fits(m) ==
            /\ Len(value) > Len(names[m])
            /\ SubSeq(low, 1, Len(names[m])) = names[m]
            /\ Ch(Rest(m), 1) = " "
            /\ Len(Parts(m)) = 2
            /\ DayField(Parts(m)[1])
            /\ Len(Parts(m)[2]) > 0
            /\ Ch(Parts(m)[2], 1) = " "
            /\ Year4Field(LStrip(Parts(m)[2]))
        cands == {m \in 1..12 : Fits(m)}
    IN  IF cands = {} THEN NoDate
        ELSE LET m == CHOOSE x \in cands : TRUE
             IN  MakeDate(IntOf(LStrip(Parts(m)[2])), m, DayOf(Parts(m)[1]))

\* datetime.strptime(value, fmt).date(), NoDate for its ValueError.
Strptime(value, fmt) ==
    LET sl == Split(value, "/")
        hy == Split(value, "-")
    IN  CASE fmt = "%m/%d/%Y" ->
                IF Len(sl) = 3 /\ MonthField(sl[1]) /\ DayField(sl[2]) /\ Year4Field(sl[3])
                THEN MakeDate(IntOf(sl[3]), IntOf(sl[1]), DayOf(sl[2])) ELSE NoDate
          [] fmt = "%Y-%m-%d" ->
                IF Len(hy) = 3 /\ Year4Field(hy[1]) /\ MonthField(hy[2]) /\ DayField(hy[3])
                THEN MakeDate(IntOf(hy[1]), IntOf(hy[2]), DayOf(hy[3])) ELSE NoDate
          [] fmt = "%m/%d/%y" ->
                IF Len(sl) = 3 /\ MonthField(sl[1]) /\ DayField(sl[2]) /\ Year2Field(sl[3])
                THEN MakeDate(Year2Of(sl[3]), IntOf(sl[1]), DayOf(sl[2])) ELSE NoDate
          [] fmt = "%d/%m/%Y" ->
                IF Len(sl) = 3 /\ DayField(sl[1]) /\ MonthField(sl[2]) /\ Year4Field(sl[3])
                THEN MakeDate(IntOf(sl[3]), IntOf(sl[2]), DayOf(sl[1])) ELSE NoDate
          [] fmt = "%B %d, %Y" -> StrptimeNamed(value, MonthNames)
          [] fmt = "%b %d, %Y" -> StrptimeNamed(value, MonthAbbrs)

DateFormats == <<"%m/%d/%Y", "%Y-%m-%d", "%m/%d/%y", "%d/%m/%Y", "%B %d, %Y", "%b %d, %Y">>

\* The serials counted from 1900-01-01 instead.
SerialBase1900 == Ordinal(1900, 1, 1)

\* datetime(1899, 12, 30), the epoch of the sheet's date serials.
SerialBase == Ordinal(1899, 12, 30)

\* re.fullmatch(r"\d{4,6}", value)
IsSerial(value) == Len(value) \in 4..6 /\ AllDigits(value)

\* The first layout of DateFormats, from the i-th on, that accepts the text.
RECURSIVE FirstFormat(_, _)
FirstFormat(value, i) ==
    IF i > Len(DateFormats) THEN NoDate
    ELSE LET parsed == Strptime(value, DateFormats[i])
         IN  IF parsed # NoDate THEN parsed ELSE FirstFormat(value, i + 1)

_try_parse_date(value0) ==
    IF value0 = "" THEN NoDate
    ELSE LET value == Strip(value0)
             parsed == FirstFormat(value, 1)
         IN  IF parsed # NoDate THEN parsed
             ELSE IF IsSerial(value) THEN SerialBase + IntOf(value)
             ELSE NoDate

----------------------------------------------------------------------------
(* Header scanner                                                          *)

\* The dict {col_index: date} as the sequence of its items in insertion
\* order; col_index counts from 0 as in the source.
RECURSIVE ScanFrom(_, _, _, _)
ScanFrom(header_row, i, date_cols, in_dates) ==
    IF i > Len(header_row) THEN date_cols
    ELSE LET parsed == _try_parse_date(header_row[i])
         IN  IF parsed # NoDate
             THEN ScanFrom(header_row, i + 1,
                           Append(date_cols, [idx |-> i - 1, date |-> parsed]), TRUE)
             ELSE IF in_dates THEN date_cols
             ELSE ScanFrom(header_row, i + 1, date_cols, FALSE)

\* The scan without its break: every date cell of the row is taken.
RECURSIVE ScanAll(_, _)
ScanAll(header_row, i) ==
    IF i > Len(header_row) THEN <<>>
    ELSE IF _try_parse_date(header_row[i]) # NoDate
         THEN <<[idx |-> i - 1, date |-> _try_parse_date(header_row[i])]>>
                  \o ScanAll(header_row, i + 1)
         ELSE ScanAll(header_row, i + 1)

_parse_date_columns_no_break(header_row) == ScanAll(header_row, 1)

_parse_date_columns(header_row) == ScanFrom(header_row, 1, <<>>, FALSE)

----------------------------------------------------------------------------
(* Section extractor                                                       *)

\* The table with the second section starting one row early, on the last
\* row of the first.
OverlappingSections ==
    << <<"Net Revenue + Shipping", 1, 10>>,
       <<"Share %", 10, 19>>,
       <<"Share of INT %", 20, 26>>,
       <<"YoY #", 27, 36>>,
       <<"YoY %", 37, 46>>,
       <<"New Customers", 47, 56>>,
       <<"Ad Spend", 57, 66>>,
       <<"% of Ad Spend", 67, 76>>,
       <<"CAC", 77, 86>> >>

METRIC_SECTIONS ==
    << <<"Net Revenue + Shipping", 1, 10>>,
       <<"Share %", 11, 19>>,
       <<"Share of INT %", 20, 26>>,
       <<"YoY #", 27, 36>>,
       <<"YoY %", 37, 46>>,
       <<"New Customers", 47, 56>>,
       <<"Ad Spend", 57, 66>>,
       <<"% of Ad Spend", 67, 76>>,
       <<"CAC", 77, 86>> >>

\* seq[a:b] of Python for 0 <= a <= b: clamped to the sequence.
Slice(seq, a, b) == SubSeq(seq, a + 1, IF b < Len(seq) THEN b ELSE Len(seq))

\* The country taken as it stands in the cell: row[1] without strip().
CountryUntrimmed(row) == IF Len(row) > 1 THEN row[2] ELSE ""

\* row[1].strip() if len(row) > 1 else ""
CountryOf(row) == IF Len(row) > 1 THEN Strip(row[2]) ELSE ""

\* row[col_idx] if col_idx < len(row) else ""
CellOf(row, col_idx) == IF col_idx < Len(row) THEN row[col_idx + 1] ELSE ""

\* The records of a row when only the absent cells are skipped and the
\* zeros are kept.
RECURSIVE RowRecordsKeepZero(_, _, _, _, _)
RowRecordsKeepZero(row, metric_name, date_cols, as_of, i) ==
    IF i > Len(date_cols) THEN <<>>
    ELSE LET col_date == date_cols[i].date
             value == _parse_number(CellOf(row, date_cols[i].idx))
             rest == RowRecordsKeepZero(row, metric_name, date_cols, as_of, i + 1)
         IN  IF col_date > as_of THEN rest
             ELSE IF value = None THEN rest
             ELSE <<[date |-> col_date, country |-> CountryOf(row),
                     metric_name |-> metric_name, value |-> value]>> \o rest

\* The records one row appends, from the i-th item of date_cols on.
RECURSIVE RowRecords(_, _, _, _, _)
RowRecords(row, metric_name, date_cols, as_of, i) ==
    IF i > Len(date_cols) THEN <<>>
    ELSE LET col_date == date_cols[i].date
             value == _parse_number(CellOf(row, date_cols[i].idx))
             rest == RowRecords(row, metric_name, date_cols, as_of, i + 1)
         IN  IF col_date > as_of THEN rest
             ELSE IF value = None \/ value = Zero THEN rest
             ELSE <<[date |-> col_date, country |-> CountryOf(row),
                     metric_name |-> metric_name, value |-> value]>> \o rest

\* as_of is date.today(), read once at the top of the function.
RECURSIVE _parse_section(_, _, _, _)
_parse_section(rows, metric_name, date_cols, as_of) ==
    IF rows = <<>> THEN <<>>
    ELSE LET row == Head(rows)
             rest == _parse_section(Tail(rows), metric_name, date_cols, as_of)
         IN  IF row = <<>> THEN rest
             ELSE IF CountryOf(row) = "" THEN rest
             ELSE RowRecords(row, metric_name, date_cols, as_of, 1) \o rest

\* pd.concat of the frames of the sections, from the i-th section on.
RECURSIVE SectionFrames(_, _, _, _)
SectionFrames(grid, date_cols, as_of, i) ==
    IF i > Len(METRIC_SECTIONS) THEN <<>>
    ELSE LET sec == METRIC_SECTIONS[i]
         IN  _parse_section(Slice(grid, sec[2], sec[3] + 1), sec[1], date_cols, as_of)
                 \o SectionFrames(grid, date_cols, as_of, i + 1)

----------------------------------------------------------------------------
(* Tidy store                                                              *)

\* a sorts strictly before b by ["metric_name", "country", "date"].
KeyLess(a, b) ==
    \/ StrLess(a.metric_name, b.metric_name)
    \/ /\ a.metric_name = b.metric_name
       /\ \/ StrLess(a.country, b.country)
          \/ a.country = b.country /\ a.date < b.date

\* r placed after every record that does not sort after it (the sort keeps
\* the order of records with equal keys).
RECURSIVE InsertSorted(_, _)
InsertSorted(sorted, r) ==
    IF sorted = <<>> THEN <<r>>
    ELSE IF KeyLess(r, Head(sorted)) THEN <<r>> \o sorted
    ELSE <<Head(sorted)>> \o InsertSorted(Tail(sorted), r)

RECURSIVE SortValues(_)
SortValues(frame) ==
    IF frame = <<>> THEN <<>>
    ELSE InsertSorted(SortValues(SubSeq(frame, 1, Len(frame) - 1)), frame[Len(frame)])

\* The dates a nanosecond Timestamp can hold.
TimestampMin == Ordinal(1677, 9, 22)
TimestampMax == Ordinal(2262, 4, 11)

\* What pd.to_datetime(df["date"]) can do with the records: convert them
\* (the load returns the frame), or, where a date is outside the nanosecond
\* range and the pandas build converts to nanoseconds, raise.
to_datetime(frame) ==
    {[exc |-> "", frame |-> frame]} \cup
    IF \E i \in 1..Len(frame) : frame[i].date < TimestampMin \/ frame[i].date > TimestampMax
    THEN {[exc |-> "OutOfBoundsDatetime", frame |-> <<>>]}
    ELSE {}

\* The body of load_raw_data once the grid is fetched and non-empty.
load_raw_data(grid, as_of) ==
    SortValues(SectionFrames(grid, _parse_date_columns(grid[1]), as_of, 1))

\* The report's table with its last section one row lower.
ShiftedSections ==
    << <<"Net Revenue + Shipping", 1, 10>>,
       <<"Share %", 11, 19>>,
       <<"Share of INT %", 20, 26>>,
       <<"YoY #", 27, 36>>,
       <<"YoY %", 37, 46>>,
       <<"New Customers", 47, 56>>,
       <<"Ad Spend", 57, 66>>,
       <<"% of Ad Spend", 67, 76>>,
       <<"CAC", 78, 87>> >>

\* METRIC_SECTIONS of send_report.py.
REPORT_METRIC_SECTIONS ==
    << <<"Net Revenue + Shipping", 1, 10>>,
       <<"Share %", 11, 19>>,
       <<"Share of INT %", 20, 26>>,
       <<"YoY #", 27, 36>>,
       <<"YoY %", 37, 46>>,
       <<"New Customers", 47, 56>>,
       <<"Ad Spend", 57, 66>>,
       <<"% of Ad Spend", 67, 76>>,
       <<"CAC", 77, 86>> >>

\* The section loop of send_report.load_data, from the i-th section on: the
\* row and column loops inside it are those of _parse_section, statement for
\* statement, with the report's own copies of the two cell parsers.
RECURSIVE ReportFrames(_, _, _, _)
ReportFrames(grid, date_cols, as_of, i) ==
    IF i > Len(REPORT_METRIC_SECTIONS) THEN <<>>
    ELSE LET sec == REPORT_METRIC_SECTIONS[i]
         IN  _parse_section(Slice(grid, sec[2], sec[3] + 1), sec[1], date_cols, as_of)
                 \o ReportFrames(grid, date_cols, as_of, i + 1)

\* The body of send_report.load_data once the grid is fetched and non-empty:
\* the same header scan and extraction inline, and no sort.
load_data(grid, as_of) ==
    ReportFrames(grid, _parse_date_columns(grid[1]), as_of, 1)

----------------------------------------------------------------------------
(* Query layer                                                             *)

\* The mask with the end of the range left out: date < end_date.
filter_data_open_end(frame, metrics, countries, start_date, end_date) ==
    LET mask(r) ==
            /\ r.metric_name \in metrics
            /\ r.country \in countries
            /\ r.date >= start_date
            /\ r.date < end_date
    IN  SelectSeq(frame, mask)

filter_data(frame, metrics, countries, start_date, end_date) ==
    LET mask(r) ==
            /\ r.metric_name \in metrics
            /\ r.country \in countries
            /\ r.date >= start_date
            /\ r.date <= end_date
    IN  SelectSeq(frame, mask)

\* Series.sum(): NaN entries are skipped, an empty or all-NaN series sums to 0.
RECURSIVE SeriesSum(_)
SeriesSum(frame) ==
    IF frame = <<>> THEN Zero
    ELSE IF Head(frame).value = NaN THEN SeriesSum(Tail(frame))
    ELSE Add(Head(frame).value, SeriesSum(Tail(frame)))

\* Series.mean(): the sum over the count of the entries that are not NaN,
\* kept as that quotient; NaN when there is none.
SeriesMean(frame) ==
    LET kept == SelectSeq(frame, LAMBDA r : r.value # NaN)
    IN  IF kept = <<>> THEN NaN
        ELSE [k |-> "quotient", total |-> SeriesSum(kept), count |-> Len(kept)]

\* sort_values on one key runs the default quicksort, which keeps the order
\* of records with equal dates in some builds and not in others; a build
\* always does the same.
SortTies == {"first", "last"}

\* The record that stands first in the frame whatever the dates.
FirstOfFrame(frame) == frame[1]

\* sub.sort_values("date").iloc[-1]: of the records with the latest date, the
\* one the build's sort leaves last.
LastByDate(frame) ==
    LET latest == {i \in 1..Len(frame) : \A j \in 1..Len(frame) : frame[j].date <= frame[i].date}
    IN  IF sort_tie = "last"
        THEN frame[CHOOSE i \in latest : \A j \in latest : j <= i]
        ELSE frame[CHOOSE i \in latest : \A j \in latest : i <= j]

\* df["date"].max().date(), None (written NoDate) for an empty frame.
get_last_updated(frame) ==
    IF frame = <<>> THEN NoDate
    ELSE LET i == CHOOSE i \in 1..Len(frame) : \A j \in 1..Len(frame) : frame[j].date <= frame[i].date
         IN  frame[i].date

\* sorted() of a set of strings.
RECURSIVE SortedStrings(_)
SortedStrings(S) ==
    IF S = {} THEN <<>>
    ELSE LET m == CHOOSE x \in S : \A y \in S \ {x} : StrLess(x, y)
         IN  <<m>> \o SortedStrings(S \ {m})

get_metric_names(frame) == SortedStrings({frame[i].metric_name : i \in 1..Len(frame)})

get_countries(frame) == SortedStrings({frame[i].country : i \in 1..Len(frame)})

\* Whether the frame filter_data returns is a view of the store's data.
ResultSharesView == TRUE

\* df[mask].copy(): the result has its own data.
ResultShares == FALSE

get_summary_value(frame, metric, countries, start_date, end_date, aggregation) ==
    LET sub == filter_data(frame, {metric}, countries, start_date, end_date)
    IN  IF sub = <<>> THEN None
        ELSE IF aggregation = "sum" THEN SeriesSum(sub)
        ELSE IF aggregation = "mean" THEN SeriesMean(sub)
        ELSE IF aggregation = "last" THEN LastByDate(sub).value
        ELSE None

----------------------------------------------------------------------------
(* The cell parser on its own: one text in, one call.                      *)

MaxTextLen == 4

NumChars == {"0", "1", "5", ".", "$", ",", " ", "%", "(", ")", "-", "+"}

\* Every string of at most n characters of NumChars.
RECURSIVE TextsUpTo(_)
TextsUpTo(n) ==
    IF n = 0 THEN {""}
    ELSE LET T == TextsUpTo(n - 1) IN T \cup {t \o c : t \in T, c \in NumChars}

\* Longer texts, and texts with other characters.
SpecialNumTexts ==
    Sentinels \cup
    {" N/A ", " - ", "N / A", "nan", "NaN", " nan", "(nan)", "inf", "-inf", "(inf)",
     "Infinity", "$inf", "$1,234.50", "(500)", "12.5%", "($1,234.50)", "( 12.5% )",
     "$(500)", "(500)%", "abc", "1,234,567", "1 234", "0.00%", "(0.0)", "12..5",
     "1-5", "$-500", "-$500", "+12.5%", "#N/A"}

NumTexts == TextsUpTo(MaxTextLen) \cup SpecialNumTexts

\* No entry in the cache.
NoEntry == [value |-> <<>>, stored_at |-> -1]

Idle ==
    /\ loader = "none"
    /\ all_values = <<>>
    /\ today = 0
    /\ df = <<>>
    /\ exc = ""
    /\ query = <<>>
    /\ answer = <<>>
    /\ sheet = <<>>
    /\ now = 0
    /\ cache = NoEntry
    /\ fetched = FALSE
    /\ entry_age = -1

InitNumber ==
    /\ arg \in NumTexts
    /\ ret = None
    /\ pc = "call"
    /\ Idle
    /\ sort_tie = "last"

ParseNumber ==
    /\ pc = "call"
    /\ ret' = _parse_number(arg)
    /\ pc' = "returned"
    /\ UNCHANGED <<arg, loader, all_values, today, df, exc, query, answer, sort_tie>>
    /\ UNCHANGED cacheVars

NextNumber == ParseNumber

SpecNumber == InitNumber /\ [][NextNumber]_vars

Returned == pc = "returned"

Decorations == {"$", ",", " ", "%"}

\* The characters of s that are no decoration, in their order.
RECURSIVE Bare(_)
Bare(s) ==
    IF s = "" THEN ""
    ELSE (IF Ch(s, 1) \in Decorations THEN "" ELSE Ch(s, 1)) \o Bare(SubSeq(s, 2, Len(s)))

PointsOf(s) == {i \in 1..Len(s) : Ch(s, i) = "."}

\* A decimal magnitude: digits with at most one point and at least one digit.
IsMagnitude(s) ==
    /\ \A i \in 1..Len(s) : IsDigit(Ch(s, i)) \/ Ch(s, i) = "."
    /\ Cardinality(PointsOf(s)) <= 1
    /\ Cardinality(PointsOf(s)) < Len(s)

\* Its value: the digits read as an integer over ten to the number of
\* digits after the point.
MagnitudeOf(s) ==
    LET digits == [i \in 1..Len(s) |-> IF IsDigit(Ch(s, i)) THEN DigitVal(Ch(s, i)) ELSE 0 - 1]
        places == {i \in 1..Len(s) : \E j \in PointsOf(s) : j < i}
        Weight(i) == Pow10(Cardinality({j \in (i + 1)..Len(s) : digits[j] >= 0}))
        RECURSIVE Total(_)
        Total(i) == IF i > Len(s) THEN 0
                    ELSE (IF digits[i] >= 0 THEN digits[i] * Weight(i) ELSE 0) + Total(i + 1)
    IN  Num(Total(1), Cardinality(places))

\* C6: a sentinel text (blanks around it aside) parses to absent; a decorated
\* decimal magnitude parses to the magnitude, and to the magnitude negated
\* when the text is wrapped in parentheses; the three examples of the spec.
C6_ParseNumber ==
    Returned =>
        LET s == Strip(arg)
        IN  /\ s \in Sentinels \cup {""} => ret = None
            /\ s \notin Sentinels /\ IsMagnitude(Bare(s)) => ret = MagnitudeOf(Bare(s))
            /\ /\ Len(s) >= 2
               /\ Ch(s, 1) = "("
               /\ Ch(s, Len(s)) = ")"
               /\ IsMagnitude(Bare(SubSeq(s, 2, Len(s) - 1)))
               => ret = Neg(MagnitudeOf(Bare(SubSeq(s, 2, Len(s) - 1))))
            /\ arg = "$1,234.50" => ret = Num(12345, 1)
            /\ arg = "(500)" => ret = Num(0 - 500, 0)
            /\ arg = "12.5%" => ret = Num(125, 1)

\* A decorated amount in parentheses was parsed to its negated magnitude.
C6_Witness ==
    /\ Returned
    /\ arg = "($1,234.50)"
    /\ ret = Num(0 - 12345, 1)

----------------------------------------------------------------------------
(* The date parser on its own: one text in, one call.                      *)

YearSpan == 2

\* The years of the dates rendered: 2024 and the YearSpan after it, and the
\* first and the last year a two-digit year stands for.
DateYears == (2024..(2024 + YearSpan)) \cup {1969, 2068}

DateDays == {1, 9, 12, 13, 28, 29, 30, 31}

ClaimDates == {t \in DateYears \X (1..12) \X DateDays : ValidDate(t[1], t[2], t[3])}

\* str(n) for n >= 0, and n in at least two and four digits.
RECURSIVE Dec(_)
Dec(n) == IF n < 10 THEN Ch(Digits, n + 1) ELSE Dec(n \div 10) \o Ch(Digits, (n % 10) + 1)

Pad2(n) == IF n < 10 THEN "0" \o Dec(n) ELSE Dec(n)

Pad4(n) == IF n < 10 THEN "000" \o Dec(n)
           ELSE IF n < 100 THEN "00" \o Dec(n)
           ELSE IF n < 1000 THEN "0" \o Dec(n)
           ELSE Dec(n)

FullNames ==
    <<"January", "February", "March", "April", "May", "June", "July", "August",
      "September", "October", "November", "December">>

AbbrNames ==
    <<"Jan", "Feb", "Mar", "Apr", "May", "Jun", "Jul", "Aug", "Sep", "Oct", "Nov", "Dec">>

\* The renderings of the date t = <<y, m, d>>, with and without leading zeros.
Render(layout, padded, t) ==
    LET mm == IF padded THEN Pad2(t[2]) ELSE Dec(t[2])
        dd == IF padded THEN Pad2(t[3]) ELSE Dec(t[3])
    IN  CASE layout = "m/d/yyyy" -> mm \o "/" \o dd \o "/" \o Pad4(t[1])
          [] layout = "yyyy-m-d" -> Pad4(t[1]) \o "-" \o mm \o "-" \o dd
          [] layout = "m/d/yy" -> mm \o "/" \o dd \o "/" \o Pad2(t[1] % 100)
          [] layout = "Month d, yyyy" -> FullNames[t[2]] \o " " \o dd \o ", " \o Pad4(t[1])
          [] layout = "Mon d, yyyy" -> AbbrNames[t[2]] \o " " \o dd \o ", " \o Pad4(t[1])
          [] layout = "d/m/yyyy" -> dd \o "/" \o mm \o "/" \o Pad4(t[1])

\* The layouts the claim names, and the layout it leaves out.
ClaimLayouts == {"m/d/yyyy", "yyyy-m-d", "m/d/yy", "Month d, yyyy", "Mon d, yyyy"}

DayFirst == "d/m/yyyy"

\* The renderings in the layouts L, each with the ordinal of its date.
Renderings(L) ==
    {<<Render(layout, padded, t), Ordinal(t[1], t[2], t[3])>> :
        layout \in L, padded \in BOOLEAN, t \in ClaimDates}

ClaimRenderings == Renderings(ClaimLayouts)

DayFirstRenderings == Renderings({DayFirst})

\* The day-first renderings whose first number is no month.
DayFirstOnly ==
    {<<Render(DayFirst, padded, t), Ordinal(t[1], t[2], t[3])>> :
        padded \in BOOLEAN, t \in {u \in ClaimDates : u[3] > 12}}

SerialTexts == {"0000", "0366", "1000", "9999", "10000", "45000", "46023", "046023", "99999", "999999"}

OtherDateTexts ==
    {"", "  ", "abc", "Metric", "Country", "2025 YTD", "YTD YoY %", "123", "1234567",
     "46,023", "4602a", "2026/01/05", "1-5-2026", "2/30/2026", "31/4/2026", "13/13/2026",
     "0/5/2026", "1/0/2026", "1/2/20261", "1/2", "March 5 2026", "Marc 5, 2026",
     "March 5, 26", "2026-13-01", "2026-02-30", "1/2/0000"}

DateTexts ==
    {p[1] : p \in ClaimRenderings \cup DayFirstRenderings} \cup SerialTexts \cup OtherDateTexts

InitDate ==
    /\ arg \in DateTexts
    /\ ret = NoDate
    /\ pc = "call"
    /\ Idle
    /\ sort_tie = "last"

TryParseDate ==
    /\ pc = "call"
    /\ ret' = _try_parse_date(arg)
    /\ pc' = "returned"
    /\ UNCHANGED <<arg, loader, all_values, today, df, exc, query, answer, sort_tie>>
    /\ UNCHANGED cacheVars

NextDate == TryParseDate

SpecDate == InitDate /\ [][NextDate]_vars

\* The dates a text renders in a set of renderings.
DatesOf(text, renderings) == {p[2] : p \in {q \in renderings : q[1] = text}}

IsSerialText(text) == Len(text) \in 4..6 /\ \A i \in 1..Len(text) : Ch(text, i) \in DigitChars

----------------------------------------------------------------------------
(* The header scanner on its own: one header row in, one call.             *)

MaxHeaderLen == 4

HeaderCells == {"Metric", "", "1/1/2026", "1/2/2026", "2025 YTD", "46025"}

ExampleHeader == <<"Metric", "Country", "1/1/2026", "1/2/2026", "2025 YTD", "1/3/2026">>

RECURSIVE RowsUpTo(_)
RowsUpTo(n) ==
    IF n = 0 THEN {<<>>}
    ELSE LET R == RowsUpTo(n - 1) IN R \cup {Append(r, c) : r \in R, c \in HeaderCells}

HeaderRows == RowsUpTo(MaxHeaderLen) \cup {ExampleHeader}

InitHeader ==
    /\ arg \in HeaderRows
    /\ ret = <<>>
    /\ pc = "call"
    /\ Idle
    /\ sort_tie = "last"

ParseDateColumns ==
    /\ pc = "call"
    /\ ret' = _parse_date_columns(arg)
    /\ pc' = "returned"
    /\ UNCHANGED <<arg, loader, all_values, today, df, exc, query, answer, sort_tie>>
    /\ UNCHANGED cacheVars

NextHeader == ParseDateColumns

SpecHeader == InitHeader /\ [][NextHeader]_vars

\* C1: the date column map is one contiguous ascending run of columns: it
\* starts at the first cell of the header that parses as a date, holds every
\* column up to the first cell after it that does not, and nothing at or
\* after that cell; the example header gives exactly the columns 2 and 3.
C1_ContiguousRun ==
    pc = "returned" =>
        LET n == Len(arg)
            parsed == [i \in 1..n |-> _try_parse_date(arg[i])]
            IsDate(i) == parsed[i] # NoDate
            dates == {i \in 1..n : IsDate(i)}
        IN  /\ IF dates = {} THEN ret = <<>>
               ELSE LET first == CHOOSE i \in dates : \A j \in dates : i <= j
                        stops == {j \in first..n : ~IsDate(j)} \cup {n + 1}
                        stop == CHOOSE j \in stops : \A x \in stops : j <= x
                    IN  /\ Len(ret) = stop - first
                        /\ \A k \in 1..Len(ret) :
                              /\ ret[k].idx = first + k - 2
                              /\ ret[k].date = parsed[first + k - 1]
            /\ arg = ExampleHeader =>
                  {ret[k].idx : k \in 1..Len(ret)} = {2, 3}

\* A date after the summary column was left out of the map.
C1_Witness ==
    /\ pc = "returned"
    /\ arg = ExampleHeader
    /\ ret = <<[idx |-> 2, date |-> Ordinal(2026, 1, 1)], [idx |-> 3, date |-> Ordinal(2026, 1, 2)]>>

----------------------------------------------------------------------------
(* Loads and queries                                                       *)

Header1 == <<"Metric", "Country", "1/1/2026", "1/2/2026", "1/3/2026", "2025 YTD", "1/4/2026">>
Header2 == <<"Metric", "Country", "Jan 1, 2026", "46024", "1/3/26">>
Header3 == <<"Metric", "Country", "1/1/0206", "1/2/2026">>
Headers == {Header1, Header2, Header3, <<>>}

RowUS == <<"Net Revenue + Shipping", "US", "5", "(5)", "7", "100", "9">>
RowUK == <<"", " UK ", "0", "12.5%", "#DIV/0!", "100", "9">>
RowUS2 == <<"", "US", "$1,234.50", "nan", "abc", "100", "9">>
RowBlank == <<"", "  ", "5", "5", "5", "5", "5">>
RowShort == <<"", "UK", "(0)", "3">>
Filler == <<"", "", "", "", "", "", "">>

\* The rows the grids vary (0-based, as METRIC_SECTIONS counts them): two of
\* the first section, the first of "% of Ad Spend", and one below every section.
RowChoices ==
    [r1 : {RowUS, RowUK, RowUS2, RowShort, <<>>},
     r2 : {RowUS, RowUK, RowUS2, RowShort, RowBlank},
     r67 : {RowUS, RowUK, RowBlank}]

RowCounts == {0, 1, 3, 68, 88}

GridOf(header, rows, n) ==
    [i \in 1..n |->
        CASE i = 1 -> header
          [] i = 2 -> rows.r1
          [] i = 3 -> rows.r2
          [] i = 68 -> rows.r67
          [] i = 88 -> RowUS
          [] OTHER -> Filler]

\* What worksheet.get_all_values() can return.
Grids == {GridOf(h, rows, n) : h \in Headers, rows \in RowChoices, n \in RowCounts}

Jan(d) == Ordinal(2026, 1, d)

Todays == {Jan(2), Jan(5)}

MaxDay == 2

QueryDays == {Jan(d) : d \in 1..MaxDay}

QueryMetrics == {"Net Revenue + Shipping", "% of Ad Spend"}

QueryCountries == {{}, {"US"}, {"US", "UK"}}

Aggregations == {"sum", "mean", "last", "median"}

Init ==
    /\ arg = ""
    /\ ret = None
    /\ pc = "start"
    /\ Idle
    /\ sort_tie \in SortTies

\* One call of load_raw_data: the fetch raises, or all_values[0] raises on a
\* grid without rows, or to_datetime raises, or the sorted store is returned.
LoadRawData ==
    /\ pc = "start"
    /\ loader' = "dashboard"
    /\ \E t \in Todays :
        /\ today' = t
        /\ \/ /\ exc' = "SourceUnavailable"
              /\ pc' = "raised"
              /\ UNCHANGED <<all_values, df>>
           \/ \E grid \in Grids :
                /\ all_values' = grid
                /\ IF grid = <<>>
                   THEN exc' = "IndexError" /\ pc' = "raised" /\ UNCHANGED df
                   ELSE \E outcome \in to_datetime(load_raw_data(grid, t)) :
                          IF outcome.exc = ""
                          THEN df' = outcome.frame /\ pc' = "loaded" /\ UNCHANGED exc
                          ELSE exc' = outcome.exc /\ pc' = "raised" /\ UNCHANGED df
    /\ UNCHANGED <<arg, ret, query, answer, sort_tie>>
    /\ UNCHANGED cacheVars

\* One call of send_report.load_data.
LoadData ==
    /\ pc = "start"
    /\ loader' = "report"
    /\ \E t \in Todays :
        /\ today' = t
        /\ \/ /\ exc' = "SourceUnavailable"
              /\ pc' = "raised"
              /\ UNCHANGED <<all_values, df>>
           \/ \E grid \in Grids :
                /\ all_values' = grid
                /\ IF grid = <<>>
                   THEN exc' = "IndexError" /\ pc' = "raised" /\ UNCHANGED df
                   ELSE \E outcome \in to_datetime(load_data(grid, t)) :
                          IF outcome.exc = ""
                          THEN df' = outcome.frame /\ pc' = "loaded" /\ UNCHANGED exc
                          ELSE exc' = outcome.exc /\ pc' = "raised" /\ UNCHANGED df
    /\ UNCHANGED <<arg, ret, query, answer, sort_tie>>
    /\ UNCHANGED cacheVars

FilterData ==
    /\ pc = "loaded"
    /\ \E metrics \in SUBSET QueryMetrics, countries \in QueryCountries,
          start_date \in QueryDays, end_date \in QueryDays :
        /\ query' = [op |-> "filter", metrics |-> metrics, countries |-> countries,
                     start_date |-> start_date, end_date |-> end_date, aggregation |-> ""]
        /\ answer' = filter_data(df, metrics, countries, start_date, end_date)
    /\ pc' = "answered"
    /\ UNCHANGED <<arg, ret, loader, all_values, today, df, exc, sort_tie>>
    /\ UNCHANGED cacheVars

GetSummaryValue ==
    /\ pc = "loaded"
    /\ \E metric \in QueryMetrics, countries \in QueryCountries,
          start_date \in QueryDays, end_date \in QueryDays, aggregation \in Aggregations :
        /\ query' = [op |-> "summary", metrics |-> {metric}, countries |-> countries,
                     start_date |-> start_date, end_date |-> end_date,
                     aggregation |-> aggregation]
        /\ answer' = get_summary_value(df, metric, countries, start_date, end_date, aggregation)
    /\ pc' = "answered"
    /\ UNCHANGED <<arg, ret, loader, all_values, today, df, exc, sort_tie>>
    /\ UNCHANGED cacheVars

\* The arguments of a query that takes the store alone.
NoArguments(op) ==
    [op |-> op, metrics |-> {}, countries |-> {}, start_date |-> NoDate,
     end_date |-> NoDate, aggregation |-> ""]

GetLastUpdated ==
    /\ pc = "loaded"
    /\ query' = NoArguments("last_updated")
    /\ answer' = get_last_updated(df)
    /\ pc' = "answered"
    /\ UNCHANGED <<arg, ret, loader, all_values, today, df, exc, sort_tie>>
    /\ UNCHANGED cacheVars

GetMetricNames ==
    /\ pc = "loaded"
    /\ query' = NoArguments("metric_names")
    /\ answer' = get_metric_names(df)
    /\ pc' = "answered"
    /\ UNCHANGED <<arg, ret, loader, all_values, today, df, exc, sort_tie>>
    /\ UNCHANGED cacheVars

GetCountries ==
    /\ pc = "loaded"
    /\ query' = NoArguments("countries")
    /\ answer' = get_countries(df)
    /\ pc' = "answered"
    /\ UNCHANGED <<arg, ret, loader, all_values, today, df, exc, sort_tie>>
    /\ UNCHANGED cacheVars

\* The caller writes 0 to the value of the first row of the frame filter_data
\* returned; the write reaches the store's row only if the frame shares its
\* data with the store.
ModifyResult ==
    /\ pc = "answered"
    /\ query.op = "filter"
    /\ answer # <<>>
    /\ answer' = [answer EXCEPT ![1].value = Zero]
    /\ df' = IF ResultShares
             THEN LET kept == {i \in 1..Len(df) : df[i] = answer[1]}
                      first == CHOOSE i \in kept : \A j \in kept : i <= j
                  IN  [df EXCEPT ![first].value = Zero]
             ELSE df
    /\ pc' = "modified"
    /\ UNCHANGED <<arg, ret, loader, all_values, today, exc, query, sort_tie>>
    /\ UNCHANGED cacheVars

\* The caller is done with the result and goes on to its next query.
Continue ==
    /\ pc \in {"answered", "modified"}
    /\ pc' = "loaded"
    /\ query' = <<>>
    /\ answer' = <<>>
    /\ UNCHANGED <<arg, ret, loader, all_values, today, df, exc, sort_tie>>
    /\ UNCHANGED cacheVars

Next ==
    \/ LoadRawData
    \/ LoadData
    \/ FilterData
    \/ GetSummaryValue
    \/ GetLastUpdated
    \/ GetMetricNames
    \/ GetCountries
    \/ ModifyResult
    \/ Continue

Spec == Init /\ [][Next]_vars

----------------------------------------------------------------------------
(* Properties of a load                                                    *)

Loaded == pc = "loaded"

\* The cells of the grid a record is due for: the row lies in a section (r
\* counts rows from 0, c numbers the items of the date column map), its
\* country is not blank, the column's date is not after as_of, and the cell
\* parses to a number other than 0.
DueCells(grid, as_of) ==
    IF grid = <<>> THEN {}
    ELSE LET cols == _parse_date_columns(grid[1])
             InSection(s, r) == METRIC_SECTIONS[s][2] <= r /\ r <= METRIC_SECTIONS[s][3]
             Text(r, c) ==
                 IF cols[c].idx + 1 <= Len(grid[r + 1]) THEN grid[r + 1][cols[c].idx + 1]
                 ELSE ""
         IN  {p \in (1..Len(METRIC_SECTIONS)) \X (1..(Len(grid) - 1)) \X (1..Len(cols)) :
                 /\ InSection(p[1], p[2])
                 /\ Len(grid[p[2] + 1]) >= 2
                 /\ Strip(grid[p[2] + 1][2]) # ""
                 /\ cols[p[3]].date <= as_of
                 /\ _parse_number(Text(p[2], p[3])) \notin {None, Zero}}

\* The record due for the cell p of DueCells.
DueRecord(grid, p) ==
    LET cols == _parse_date_columns(grid[1])
    IN  [date |-> cols[p[3]].date,
         country |-> Strip(grid[p[2] + 1][2]),
         metric_name |-> METRIC_SECTIONS[p[1]][1],
         value |-> _parse_number(grid[p[2] + 1][cols[p[3]].idx + 1])]

\* C2: no record of a load has the value 0 and none has a date after the
\* as-of date, whatever the cells under a future column hold.
C2_NoZeroNoFuture ==
    Loaded => \A i \in 1..Len(df) : df[i].value # Zero /\ df[i].date <= today

\* A load whose grid has a "0" cell under a past column and the number 7
\* under a column after the as-of date, and that produced records.
C2_Witness ==
    /\ Loaded
    /\ today = Jan(2)
    /\ Len(all_values) >= 3
    /\ all_values[1] = Header1
    /\ all_values[2] = RowUS
    /\ all_values[3] = RowUK
    /\ _parse_number(RowUK[3]) = Zero
    /\ _parse_number(RowUS[5]) = Num(7, 0)
    /\ df # <<>>

C4_SortedStore ==
    Loaded => \A i \in 1..(Len(df) - 1) : ~KeyLess(df[i + 1], df[i])

\* C5: every record of a load has a finite value.
C5_FiniteValues ==
    Loaded => \A i \in 1..Len(df) : IsFinite(df[i].value)

----------------------------------------------------------------------------
(* Properties of the queries                                               *)

Answered(op) == pc = "answered" /\ query.op = op

\* The record r is one the last query asks for.
Asked(r) ==
    /\ r.metric_name \in query.metrics
    /\ r.country \in query.countries
    /\ query.start_date <= r.date
    /\ r.date <= query.end_date

\* How many times the record r stands in the frame.
Copies(frame, r) == Cardinality({i \in 1..Len(frame) : frame[i] = r})

\* C8: filter returns each record of the store that is asked for as many
\* times as the store holds it, and no other record.
C8_FilterExact ==
    Answered("filter") =>
        \A r \in {df[i] : i \in 1..Len(df)} \cup {answer[i] : i \in 1..Len(answer)} :
            Copies(answer, r) = IF Asked(r) THEN Copies(df, r) ELSE 0

\* A filter that kept a record the store holds twice, kept records dated
\* the first and the last day of the range, and dropped others.
C8_Witness ==
    /\ Answered("filter")
    /\ query.start_date < query.end_date
    /\ \E i \in 1..Len(answer) : Copies(answer, answer[i]) = 2
    /\ \E i \in 1..Len(answer) : answer[i].date = query.start_date
    /\ \E i \in 1..Len(answer) : answer[i].date = query.end_date
    /\ Len(answer) < Len(df)

\* The sum of the values of the records of the frame, from the i-th on.
RECURSIVE ValueSum(_, _)
ValueSum(frame, i) ==
    IF i > Len(frame) THEN Zero ELSE Add(frame[i].value, ValueSum(frame, i + 1))

\* C9: aggregate in mode "sum" is absent exactly when the store holds no
\* record that is asked for, and is otherwise the sum of the values of the
\* records asked for.
C9_SumOfFiltered ==
    Answered("summary") /\ query.aggregation = "sum" =>
        LET asked == SelectSeq(df, Asked)
        IN  /\ answer = None <=> asked = <<>>
            /\ asked # <<>> => answer = ValueSum(asked, 1)

\* C10: a load whose fetch failed raises; a load whose grid was fetched and
\* holds no cell a record is due for returns an empty store.
C10_EmptyIsNotFailed ==
    pc \in {"loaded", "raised"} =>
        /\ exc = "SourceUnavailable" => pc = "raised"
        /\ exc # "SourceUnavailable" /\ DueCells(all_values, today) = {} =>
              pc = "loaded" /\ df = <<>>

----------------------------------------------------------------------------
(* Properties of a load: errors                                            *)

\* C11: once a grid with at least one row is fetched the load does not
\* raise, whatever its cells and rows hold, and every cell a record is due
\* for has its record in the store.
C11_NoCellRaises ==
    /\ all_values # <<>> => pc # "raised"
    /\ Loaded => \A p \in DueCells(all_values, today) :
                    \E i \in 1..Len(df) : df[i] = DueRecord(all_values, p)

----------------------------------------------------------------------------
(* Properties of the queries: mode "last"                                  *)

\* The positions of the records of the frame that have its latest date.
Latest(frame) ==
    {i \in 1..Len(frame) : \A j \in 1..Len(frame) : frame[j].date <= frame[i].date}

\* C12: aggregate in mode "last" is the value of a record asked for whose
\* date is the latest date asked for; of several such records it is the one
\* the store's order and the build's sort fix, the same at every call.
C12_LastOfLatest ==
    Answered("summary") /\ query.aggregation = "last" =>
        LET asked == SelectSeq(df, Asked)
            ties == Latest(asked)
            pick == IF sort_tie = "last"
                    THEN CHOOSE i \in ties : \A j \in ties : j <= i
                    ELSE CHOOSE i \in ties : \A j \in ties : i <= j
        IN  IF asked = <<>> THEN answer = None
            ELSE /\ \E i \in ties : answer = asked[i].value
                 /\ answer = asked[pick].value
                 /\ answer = get_summary_value(df, CHOOSE m \in query.metrics : TRUE,
                                               query.countries, query.start_date,
                                               query.end_date, "last")

\* Mode "last" over two countries whose records of the latest day differ in
\* value, with an earlier record that comes later in the store.
C12_Witness ==
    /\ Answered("summary")
    /\ query.aggregation = "last"
    /\ LET asked == SelectSeq(df, Asked)
       IN  /\ \A i \in 1..Len(asked) : IsFinite(asked[i].value)
           /\ \E i, j \in Latest(asked) : asked[i].value # asked[j].value
           /\ \E i \in 1..Len(asked) : i \notin Latest(asked) /\ \E j \in Latest(asked) : j < i
           /\ \E i \in Latest(asked) : answer = asked[i].value

----------------------------------------------------------------------------
(* Properties of the date parser: the layouts together                     *)

\* The dates the layouts of DateFormats read from the text, each on its own.
ReadingsOf(text) ==
    {Strptime(Strip(text), DateFormats[i]) : i \in 1..Len(DateFormats)} \ {NoDate}

\* C13: the layouts that accept a text all read the same date from it, so
\* the order they are tried in does not change what parse_date returns.
C13_LayoutsAgree ==
    Returned => Cardinality(ReadingsOf(arg)) <= 1

----------------------------------------------------------------------------
(* Properties of duplicate country rows                                    *)

\* The records of the frame for one (date, country, metric_name).
OfTuple(frame, d, c, m) ==
    SelectSeq(frame, LAMBDA x : x.date = d /\ x.country = c /\ x.metric_name = m)

\* C14: the store holds one record for each row of a section and each date
\* under which the row has a non-zero value, also when rows share their
\* trimmed country, and aggregate in mode "sum" over a (date, country,
\* metric_name) that several rows gave records for is the sum of their values.
C14_DuplicatesSummed ==
    /\ Loaded =>
          LET due == DueCells(all_values, today)
          IN  \A p \in due :
                 LET r == DueRecord(all_values, p)
                 IN  Len(OfTuple(df, r.date, r.country, r.metric_name)) =
                         Cardinality({q \in due :
                             LET t == DueRecord(all_values, q)
                             IN  /\ t.date = r.date
                                 /\ t.country = r.country
                                 /\ t.metric_name = r.metric_name})
    /\ (/\ Answered("summary")
        /\ query.aggregation = "sum"
        /\ query.start_date = query.end_date
        /\ Cardinality(query.countries) = 1) =>
          LET both == SelectSeq(df, Asked)
          IN  Len(both) >= 2 => answer = ValueSum(both, 1)

----------------------------------------------------------------------------
(* Properties of a load: processing order                                  *)

Reverse(seq) == [i \in 1..Len(seq) |-> seq[Len(seq) + 1 - i]]

\* The frames merged one record of each in turn.
RECURSIVE RoundRobin(_)
RoundRobin(frames) ==
    LET rest == SelectSeq(frames, LAMBDA f : f # <<>>)
    IN  IF rest = <<>> THEN <<>>
        ELSE [i \in 1..Len(rest) |-> Head(rest[i])]
                 \o RoundRobin([i \in 1..Len(rest) |-> Tail(rest[i])])

RECURSIVE Concat(_)
Concat(frames) == IF frames = <<>> THEN <<>> ELSE Head(frames) \o Concat(Tail(frames))

\* A processing order: the direction the sections, the rows of a section and
\* the date columns are gone through, and whether the sections run one after
\* the other or in turn.
Order(sections, rows, cols, interleaved) ==
    [sections |-> sections, rows |-> rows, cols |-> cols, interleaved |-> interleaved]

Orders ==
    {Order("backward", "forward", "forward", FALSE),
     Order("forward", "backward", "forward", FALSE),
     Order("forward", "forward", "backward", FALSE),
     Order("forward", "forward", "forward", TRUE),
     Order("backward", "backward", "backward", TRUE)}

Directed(seq, direction) == IF direction = "forward" THEN seq ELSE Reverse(seq)

\* The records of the grid in the order the processing order o appends them.
RecordsIn(grid, scanned, as_of, o) ==
    LET date_cols == Directed(scanned, o.cols)
        sections == Directed(METRIC_SECTIONS, o.sections)
        frames == [i \in 1..Len(sections) |->
                      _parse_section(
                          Directed(Slice(grid, sections[i][2], sections[i][3] + 1), o.rows),
                          sections[i][1], date_cols, as_of)]
    IN  IF o.interleaved THEN RoundRobin(frames) ELSE Concat(frames)

\* The two frames hold the same records, each as many times.
SameRecords(f, g) ==
    /\ Len(f) = Len(g)
    /\ \A r \in {f[i] : i \in 1..Len(f)} : Copies(f, r) = Copies(g, r)

SortKey(r) == <<r.metric_name, r.country, r.date>>

\* No two sections of the table share a name or a row, and none is empty.
SectionsDisjoint ==
    /\ \A i, j \in 1..Len(METRIC_SECTIONS) :
          i # j =>
            /\ METRIC_SECTIONS[i][1] # METRIC_SECTIONS[j][1]
            /\ (METRIC_SECTIONS[i][2]..METRIC_SECTIONS[i][3])
                   \cap (METRIC_SECTIONS[j][2]..METRIC_SECTIONS[j][3]) = {}
    /\ \A i \in 1..Len(METRIC_SECTIONS) : METRIC_SECTIONS[i][2] <= METRIC_SECTIONS[i][3]

\* C15: the sections of the table have pairwise disjoint row ranges and
\* distinct names, and in whatever order the sections, rows and columns are
\* gone through the load yields the same records, each as many times; after
\* the final sort the stores also agree key by key.
C15_OrderIndependent ==
    /\ SectionsDisjoint
    /\ Loaded =>
          LET scanned == _parse_date_columns(all_values[1])
          IN  \A o \in Orders :
                 LET records == RecordsIn(all_values, scanned, today, o)
                 IN  /\ SameRecords(records, df)
                     /\ loader = "dashboard" =>
                           LET sorted == SortValues(records)
                           IN  \A i \in 1..Len(df) : SortKey(sorted[i]) = SortKey(df[i])

\* A sorting load with records in two sections and two rows of one country,
\* where going backward and in turn appends the records in another order.
C15_Witness ==
    /\ Loaded
    /\ loader = "dashboard"
    /\ \E i, j \in 1..Len(df) : df[i].metric_name # df[j].metric_name
    /\ \E i, j \in 1..Len(df) : i # j /\ SortKey(df[i]) = SortKey(df[j])
    /\ LET records == RecordsIn(all_values, _parse_date_columns(all_values[1]), today,
                                Order("backward", "backward", "backward", TRUE))
       IN  /\ records # load_data(all_values, today)
           /\ SameRecords(records, df)

----------------------------------------------------------------------------
(* The two loaders                                                         *)

----------------------------------------------------------------------------
(* The store under the queries                                             *)

\* C17: once a load has returned, no step changes the store: not a filter,
\* an aggregate in any mode, latest_date or an enumeration, and not a write
\* to the frame a filter returned.
C17_StoreUnchanged == [][pc # "start" => df' = df]_vars

\* The caller has written 0 into the first row of a filter's result, and the
\* store still holds that row with its value.
C17_Witness ==
    /\ pc = "modified"
    /\ answer[1].value = Zero
    /\ \E i \in 1..Len(df) :
          /\ Asked(df[i])
          /\ df[i].value # Zero
          /\ [df[i] EXCEPT !.value = Zero] = answer[1]
    /\ Len(answer) = Len(SelectSeq(df, Asked))

----------------------------------------------------------------------------
(* The cached loader: @st.cache_data(ttl=3600) around load_raw_data, the   *)
(* access of app.py and its refresh button.                                *)

\* The time-to-live of an entry, in seconds.
ttl == 3600

\* The clock moves in steps of TickSeconds, MaxTicks times.
TickSeconds == 1800

MaxTicks == 4

\* What the worksheet can hold at one time or another.
CacheGrids ==
    {<<Header1, RowUS, RowUK>>, <<Header1, RowUS2, RowShort>>, <<Header2, RowUK>>}

CacheToday == Jan(5)

\* Any entry counts, however old.
AnyEntry(entry, t) == entry # NoEntry

\* The cache has an entry that has not expired at time t.
Unexpired(entry, t) == entry # NoEntry /\ t - entry.stored_at < ttl

InitCache ==
    /\ arg = ""
    /\ ret = None
    /\ pc = "idle"
    /\ loader = "dashboard"
    /\ all_values = <<>>
    /\ today = CacheToday
    /\ df = <<>>
    /\ exc = ""
    /\ query = <<>>
    /\ answer = <<>>
    /\ sort_tie = "last"
    /\ sheet \in CacheGrids
    /\ now = 0
    /\ cache = NoEntry
    /\ fetched = FALSE
    /\ entry_age = -1

\* Time passes.
Tick ==
    /\ now < MaxTicks * TickSeconds
    /\ now' = now + TickSeconds
    /\ pc' = "idle"
    /\ UNCHANGED <<arg, ret, loader, all_values, today, df, exc, query, answer, sort_tie>>
    /\ UNCHANGED <<sheet, cache, fetched, entry_age>>

\* Somebody edits the worksheet.
EditSheet ==
    /\ sheet' \in CacheGrids \ {sheet}
    /\ pc' = "idle"
    /\ UNCHANGED <<arg, ret, loader, all_values, today, df, exc, query, answer, sort_tie>>
    /\ UNCHANGED <<now, cache, fetched, entry_age>>

\* The script calls load_raw_data(SHEET_URL): the cache returns its entry if
\* it has one that has not expired, and otherwise runs the body, which
\* raises (nothing is stored) or returns the store that becomes the entry.
Access ==
    /\ entry_age' = IF cache = NoEntry THEN -1 ELSE now - cache.stored_at
    /\ IF Unexpired(cache, now)
       THEN /\ fetched' = FALSE
            /\ df' = cache.value
            /\ exc' = ""
            /\ pc' = "served"
            /\ UNCHANGED <<cache, all_values>>
       ELSE /\ fetched' = TRUE
            /\ \/ /\ exc' = "SourceUnavailable"
                  /\ pc' = "raised"
                  /\ cache' = NoEntry
                  /\ df' = <<>>
                  /\ UNCHANGED all_values
               \/ /\ all_values' = sheet
                  /\ \E combined \in {load_raw_data(sheet, today)} :
                        /\ df' = combined
                        /\ cache' = [value |-> combined, stored_at |-> now]
                  /\ exc' = ""
                  /\ pc' = "served"
    /\ UNCHANGED <<arg, ret, loader, today, query, answer, sort_tie, sheet, now>>

\* The refresh button: st.cache_data.clear(), then the script runs again.
Refresh ==
    /\ cache' = NoEntry
    /\ pc' = "idle"
    /\ UNCHANGED <<arg, ret, loader, all_values, today, df, exc, query, answer, sort_tie>>
    /\ UNCHANGED <<sheet, now, fetched, entry_age>>

NextCache == Tick \/ EditSheet \/ Access \/ Refresh

SpecCache == InitCache /\ [][NextCache]_vars

\* C16: an access runs the body of the loader exactly when it finds no
\* entry or an entry as old as the time-to-live; otherwise it returns the
\* entry's store untouched.  A reload reads the worksheet as it is now and
\* its store replaces the entry whole: the store an access returns, and the
\* store of the entry, is always the store of one load of one grid.
C16_FetchIffNoEntry ==
    /\ pc \in {"served", "raised"} =>
          /\ fetched <=> (entry_age = -1 \/ entry_age >= ttl)
          /\ pc = "served" /\ fetched =>
                /\ all_values = sheet
                /\ df = load_raw_data(sheet, today)
                /\ cache = [value |-> df, stored_at |-> now]
          /\ pc = "served" /\ ~fetched => df = cache.value /\ cache.stored_at = now - entry_age
          /\ pc = "raised" => cache = NoEntry
    /\ cache # NoEntry => \E grid \in CacheGrids : cache.value = load_raw_data(grid, today)

\* An access within the time-to-live returned the entry's store although the
\* worksheet has changed since, and the store is not the one a load would
\* give now.
C16_Witness ==
    /\ pc = "served"
    /\ ~fetched
    /\ entry_age = TickSeconds
    /\ sheet # all_values
    /\ df # load_raw_data(sheet, today)
    /\ df = load_raw_data(all_values, today)
====
